---- MODULE Spec2Model ----
(***************************************************************************)
(* TokenSpeedMonitor (src/src/monitors/TokenSpeedMonitor.ts): the          *)
(* lifecycle, the sliding window of token arrivals, the metrics snapshot,  *)
(* the two timers and the display throttle.                                *)
(*                                                                         *)
(* Time is Date.now() in milliseconds.  JavaScript numbers are modelled as *)
(* exact rationals [n, d] in lowest terms with d > 0.  The Node event loop *)
(* is the pair of sets intervals/timeouts of timers still scheduled; the   *)
(* fields metricsUpdateInterval/hideTimeout are handles (timer ids, 0 for  *)
(* null).  statusBarItem is the triple visible/text/disposed, changed only *)
(* by the show(), hide(), text= and dispose() calls the monitor makes;     *)
(* visible records show()/hide() alone.  The clock never runs backwards,   *)
(* and a timer callback may run late but never before its delay is over.   *)
(*                                                                         *)
(* StreamHandler (src/unnamed/part_001) is modelled beside it, with its    *)
(* own variables; the two objects share no state, and each specification   *)
(* below runs one of them and leaves the other as constructed.             *)
(***************************************************************************)
EXTENDS Integers, Sequences, FiniteSets, TLC

VARIABLES
    now,                    \* Date.now()
    isTracking,
    startTime,
    currentMetrics,
    tokenBuffer,
    lastDisplayUpdate,
    metricsUpdateInterval,  \* handle: id of the interval timer, 0 = null
    hideTimeout,            \* handle: id of the timeout timer, 0 = null
    intervals,              \* event loop: scheduled setInterval timers
    timeouts,               \* event loop: scheduled setTimeout timers
    visible,                \* statusBarItem shown
    text,                   \* statusBarItem.text
    disposed,               \* statusBarItem.dispose() was called
    emitted,                \* events emitted by the latest step, in order
    lastOp,                 \* the operation or callback the latest step ran
    \* history variables (not program state)
    sessionSum,             \* sum of the counts processed since the last startTracking
    sessionNeg,             \* a negative count was processed since the last startTracking
    sinceResetSum,          \* sum of all counts processed since the last resetMetrics
    lastStopAt,             \* instant of the latest stopTracking with no startTracking since, 0 = none
    lastRender,             \* instant of the latest display refresh, 0 = none
    sessionArrivals,        \* arrivals processed since the last startTracking, newer than now - 1000 ms
    windowArrivals,         \* those of them processed since the last resetMetrics
    lastRecompute,          \* snapshot left by the latest calculateSpeed since the last startTracking
                            \* or resetMetrics, all zeros if there was none
    recomputeDropped,       \* resetMetrics has since replaced a snapshot, not all zeros, that the
                            \* latest calculateSpeed of the session had left
    rendered,               \* the latest step refreshed the display
    \* StreamHandler
    hasStarted,
    streamModelName,        \* the handler's modelName
    callsMade,              \* number of handleApiStream calls made so far
    call,                   \* the latest handleApiStream call: where it stands
    received,               \* history: the texts carried by the chunkReceived events of that call
    streamEvents            \* history: the events the handler has emitted in its lifetime

monitorVars == <<now, isTracking, startTime, currentMetrics, tokenBuffer,
          lastDisplayUpdate, metricsUpdateInterval, hideTimeout, intervals,
          timeouts, visible, text, disposed, emitted, lastOp, sessionSum,
          sessionNeg, sinceResetSum, lastStopAt, lastRender, sessionArrivals,
          windowArrivals, lastRecompute, recomputeDropped, rendered>>

handlerVars == <<hasStarted, streamModelName, callsMade, call, received,
                 streamEvents>>

vars == <<monitorVars, handlerVars>>

progVars == <<isTracking, startTime, currentMetrics, tokenBuffer,
              lastDisplayUpdate, metricsUpdateInterval, hideTimeout,
              intervals, timeouts, visible, text, disposed>>

histVars == <<sessionSum, sessionNeg, sinceResetSum, lastStopAt,
              lastRender, sessionArrivals, windowArrivals, lastRecompute,
              recomputeDropped>>

(***************************************************************************)
(* Program constants                                                       *)
(***************************************************************************)
SPEED_BUFFER_SIZE == 10
DISPLAY_THROTTLE_MS == 100
POST_TRACKING_DISPLAY_MS == 5000
METRICS_UPDATE_INTERVAL_MS == 500

(***************************************************************************)
(* Bounds of the model                                                     *)
(***************************************************************************)
Epoch == 1000       \* Date.now() when the monitor is constructed
MaxBuf == 2         \* processed addTokens calls keep at most MaxBuf arrivals buffered
MaxTotal == 10      \* processed addTokens calls keep |totalTokens| and |sessionSum| <= MaxTotal
TimeOffsets == {50, 500, 1000, 5000, 6000}
MaxIconTenths == 1005   \* speeds handed to updateDisplay on its own: 0.0, 0.1, ... up to MaxIconTenths / 10
Counts == {-5, 0, 5}
LiveCounts == {0, 5}    \* the counts handed to addTokens where progress is checked
Models == {"modelA", "modelB"}
MaxStream == 2      \* a stream yields at most MaxStream chunks
MaxCalls == 3       \* handleApiStream is called at most MaxCalls times on the handler

(***************************************************************************)
(* Numbers                                                                 *)
(***************************************************************************)
Abs(x) == IF x < 0 THEN -x ELSE x

RECURSIVE GCD(_, _)
GCD(a, b) == IF b = 0 THEN a ELSE GCD(b, a % b)

\* n / d for d > 0, in lowest terms
Rat(n, d) == LET g == GCD(Abs(n), d) IN [n |-> n \div g, d |-> d \div g]

Zero == [n |-> 0, d |-> 1]
FromInt(i) == [n |-> i, d |-> 1]
RatGt(a, b) == a.n * b.d > b.n * a.d
RatGe(a, b) == a.n * b.d >= b.n * a.d
RatLt(a, b) == a.n * b.d < b.n * a.d
\* a / b for b > 0
RatDiv(a, b) == Rat(a.n * b.d, a.d * b.n)

RECURSIVE SumCounts(_)
SumCounts(buf) == IF buf = <<>> THEN 0 ELSE Head(buf).count + SumCounts(Tail(buf))

(***************************************************************************)
(* resetMetrics: the zeroed snapshot                                       *)
(***************************************************************************)
ZeroMetrics == [currentSpeed |-> Zero, averageSpeed |-> Zero, peakSpeed |-> Zero,
                totalTokens |-> 0, elapsedTime |-> Zero]

(***************************************************************************)
(* calculateSpeed                                                          *)
(***************************************************************************)
AverageOf_windowed(total, elapsed, buf) == RatDiv(FromInt(SumCounts(buf)), elapsed)

AverageOf(total, elapsed, buf) == RatDiv(FromInt(total), elapsed)

PeakAfter_stale(current, peak) == peak

PeakAfter_assign(current, peak) == current

PeakAfter(current, peak) == IF RatGt(current, peak) THEN current ELSE peak

WindowSpeed_decay(prev, buf, t) ==
    LET timeSpan == Rat(t - buf[1].timestamp, 1000)
    IN  IF Len(buf) > 1 /\ RatGt(timeSpan, Zero)
        THEN RatDiv(FromInt(SumCounts(buf)), timeSpan)
        ELSE Zero

\* currentSpeed after the window step: reassigned only if the buffer holds
\* more than one arrival and the time span is positive
WindowSpeed(prev, buf, t) ==
    LET timeSpan == Rat(t - buf[1].timestamp, 1000)
    IN  IF Len(buf) > 1 /\ RatGt(timeSpan, Zero)
        THEN RatDiv(FromInt(SumCounts(buf)), timeSpan)
        ELSE prev

CalculateSpeed(m, buf, start, t) ==
    LET elapsed  == Rat(t - start, 1000)
        m1       == [m EXCEPT !.elapsedTime = elapsed]
        m2       == [m1 EXCEPT !.currentSpeed = WindowSpeed(m1.currentSpeed, buf, t)]
        m3       == [m2 EXCEPT !.averageSpeed = AverageOf(m2.totalTokens, elapsed, buf)]
        m4       == [m3 EXCEPT !.peakSpeed = PeakAfter(m3.currentSpeed, m3.peakSpeed)]
    IN  IF RatGt(elapsed, Zero) THEN m4 ELSE m1

(***************************************************************************)
(* updateDisplay / getSpeedIcon                                            *)
(***************************************************************************)
GetSpeedIcon_inclusive(speed) ==
    IF ~RatGt(speed, FromInt(10)) THEN 1
    ELSE IF ~RatGt(speed, FromInt(30)) THEN 2
    ELSE IF ~RatGt(speed, FromInt(60)) THEN 3
    ELSE IF ~RatGt(speed, FromInt(100)) THEN 4
    ELSE 5

GetSpeedIcon(speed) ==
    IF RatLt(speed, FromInt(10)) THEN 1
    ELSE IF RatLt(speed, FromInt(30)) THEN 2
    ELSE IF RatLt(speed, FromInt(60)) THEN 3
    ELSE IF RatLt(speed, FromInt(100)) THEN 4
    ELSE 5

\* speed.toFixed(1): the tenths nearest to |speed|, ties upward, and the sign
ToFixed1(speed) ==
    [neg |-> speed.n < 0, tenths |-> (20 * Abs(speed.n) + speed.d) \div (2 * speed.d)]

NoText == [kind |-> "unset", icon |-> 0, num |-> ToFixed1(Zero)]
ReadyText == [kind |-> "ready", icon |-> 5, num |-> ToFixed1(Zero)]

\* configuration kilocode.speedometer.showIcon, at its default
ShowIconDefault == TRUE

Rendered(speed, showIcon) ==
    [kind |-> "speed", icon |-> IF showIcon THEN GetSpeedIcon(speed) ELSE 0,
     num |-> ToFixed1(speed)]

ThrottleOpen_always(t, last) == TRUE

ThrottleOpen(t, last) == t - last >= DISPLAY_THROTTLE_MS

(***************************************************************************)
(* clearTimeouts                                                           *)
(***************************************************************************)
ClearedIntervals_leak == intervals

ClearedIntervals == IF metricsUpdateInterval # 0
                    THEN {tm \in intervals : tm.id # metricsUpdateInterval}
                    ELSE intervals

ClearedTimeouts_leak == timeouts

ClearedTimeouts == IF hideTimeout # 0
                   THEN {tm \in timeouts : tm.id # hideTimeout}
                   ELSE timeouts

(***************************************************************************)
(* StreamHandler (src/unnamed/part_001, src/src/views/SpeedDetailsView.ts) *)
(* handleApiStream is an async function: a call runs up to its next await  *)
(* (the stream's next chunk, or countTokens) in one step.  The calls on a  *)
(* handler are made one after another, each after the one before it has    *)
(* returned or thrown.  A stream is the sequence of chunks it yields and   *)
(* whether the iteration then ends or throws.  The tokenCount that         *)
(* countTokens returns is carried by chunkReceived and used nowhere else;  *)
(* it is left out.                                                         *)
(***************************************************************************)
TextChunks == {[type |-> "text", text |-> "a"], [type |-> "text", text |-> "b"]}
Chunks == TextChunks \cup {[type |-> "usage", text |-> ""]}
Streams == UNION {[1..n -> Chunks] : n \in 0..MaxStream}

NoCall == [pc |-> "idle", given |-> <<>>, rest |-> <<>>, throws |-> FALSE, fullText |-> <<>>]

\* new StreamHandler(modelName)
HandlerConstructed(name) ==
    /\ hasStarted = FALSE
    /\ streamModelName = name
    /\ callsMade = 0
    /\ call = NoCall
    /\ received = <<>>
    /\ streamEvents = <<>>

\* handleApiStream(stream), up to the first await of the loop
HandleApiStream(stream, throws) ==
    /\ call.pc \in {"idle", "done", "failed"}
    /\ callsMade < MaxCalls
    /\ callsMade' = callsMade + 1
    /\ call' = [pc |-> "next", given |-> stream, rest |-> stream,
                throws |-> throws, fullText |-> <<>>]
    /\ received' = <<>>
    /\ UNCHANGED <<hasStarted, streamModelName, streamEvents, monitorVars>>

StreamEvent(type) == [type |-> type, call |-> callsMade]

EndedStreamEvents_always(started) == <<StreamEvent("streamEnded")>>

\* after the loop: if (this.hasStarted) emit('streamEnded')
EndedStreamEvents(started) ==
    IF started THEN <<StreamEvent("streamEnded")>> ELSE <<>>

\* the awaited next() of the stream settles: the iteration is over, or it
\* throws, or it yields a chunk and the loop body runs up to countTokens
StreamNext ==
    /\ call.pc = "next"
    /\ IF call.rest = <<>>
       THEN IF call.throws
            THEN /\ call' = [call EXCEPT !.pc = "failed"]
                 /\ UNCHANGED <<hasStarted, streamEvents>>
            ELSE /\ call' = [call EXCEPT !.pc = "done"]
                 /\ streamEvents' = streamEvents \o EndedStreamEvents(hasStarted)
                 /\ UNCHANGED hasStarted
       ELSE IF Head(call.rest).type = "text"
            THEN /\ hasStarted' = TRUE
                 /\ streamEvents' = IF ~hasStarted
                                    THEN Append(streamEvents, StreamEvent("streamStarted"))
                                    ELSE streamEvents
                 /\ call' = [call EXCEPT !.pc = "count"]
            ELSE /\ call' = [call EXCEPT !.rest = Tail(call.rest)]
                 /\ UNCHANGED <<hasStarted, streamEvents>>
    /\ UNCHANGED <<streamModelName, callsMade, received, monitorVars>>

\* the awaited countTokens settles: the rest of the loop body
CountTokensDone ==
    /\ call.pc = "count"
    /\ streamEvents' = Append(streamEvents, StreamEvent("chunkReceived"))
    /\ received' = Append(received, Head(call.rest).text)
    /\ call' = [call EXCEPT !.pc = "next",
                            !.rest = Tail(call.rest),
                            !.fullText = Append(call.fullText, Head(call.rest).text)]
    /\ UNCHANGED <<hasStarted, streamModelName, callsMade, monitorVars>>

DoHandleApiStream ==
    \E stream \in Streams, throws \in BOOLEAN : HandleApiStream(stream, throws)

NextStream ==
    \/ DoHandleApiStream
    \/ StreamNext
    \/ CountTokensDone

(***************************************************************************)
(* Initial state: the constructor.  The status bar item is left hidden by  *)
(* src/src/monitors/TokenSpeedMonitor.ts and shown with a ready text by    *)
(* the other revision of the file.                                         *)
(***************************************************************************)
MonitorInit ==
    /\ now = Epoch
    /\ isTracking = FALSE
    /\ startTime = 0
    /\ currentMetrics = ZeroMetrics
    /\ tokenBuffer = <<>>
    /\ lastDisplayUpdate = 0
    /\ metricsUpdateInterval = 0
    /\ hideTimeout = 0
    /\ intervals = {}
    /\ timeouts = {}
    /\ \/ visible = FALSE /\ text = NoText
       \/ visible = TRUE /\ text = ReadyText
    /\ disposed = FALSE
    /\ emitted = <<>>
    /\ lastOp = "constructor"
    /\ sessionSum = 0
    /\ sessionNeg = FALSE
    /\ sinceResetSum = 0
    /\ lastStopAt = 0
    /\ lastRender = 0
    /\ sessionArrivals = <<>>
    /\ windowArrivals = <<>>
    /\ lastRecompute = currentMetrics
    /\ recomputeDropped = FALSE
    /\ rendered = FALSE

\* the monitor and a handler, both just constructed
Init == MonitorInit /\ HandlerConstructed("modelA")

(***************************************************************************)
(* Operations                                                              *)
(***************************************************************************)
\* emit('trackingStarted', { model: modelName })
StartedEvents(modelName) ==
    <<[type |-> "trackingStarted", payload |-> [model |-> modelName]]>>

\* emit('trackingEnded', this.currentMetrics)
EndedEvents_ifTracking(metrics) ==
    IF isTracking THEN <<[type |-> "trackingEnded", payload |-> metrics]>> ELSE <<>>

EndedEvents(metrics) ==
    <<[type |-> "trackingEnded", payload |-> metrics]>>

StartTracking(modelName) ==
    /\ isTracking' = TRUE
    /\ startTime' = now
    /\ currentMetrics' = ZeroMetrics
    /\ tokenBuffer' = <<>>
    /\ visible' = TRUE
    /\ timeouts' = ClearedTimeouts
    /\ hideTimeout' = 0
    /\ intervals' = ClearedIntervals \cup
                    {[id |-> now, due |-> now + METRICS_UPDATE_INTERVAL_MS]}
    /\ metricsUpdateInterval' = now
    /\ rendered' = FALSE
    /\ lastOp' = "startTracking"
    /\ UNCHANGED handlerVars
    /\ emitted' = StartedEvents(modelName)
    /\ sessionSum' = 0
    /\ sessionNeg' = FALSE
    /\ sinceResetSum' = 0
    /\ lastStopAt' = 0
    /\ sessionArrivals' = <<>>
    /\ windowArrivals' = <<>>
    /\ lastRecompute' = ZeroMetrics
    /\ recomputeDropped' = FALSE
    /\ UNCHANGED <<now, lastDisplayUpdate, text, disposed, lastRender>>

AddTokensIgnored_zeroOnly(count) == count = 0

AddTokensIgnored(count) == ~isTracking \/ count = 0

AddedTotal_assign(total, count) == count

AddedTotal(total, count) == total + count

Retained_inclusive(point, cutoffTime) == point.timestamp >= cutoffTime

Retained(point, cutoffTime) == point.timestamp > cutoffTime

AddTokensEvents_sync(metrics) == <<[type |-> "metricsUpdated", payload |-> metrics]>>

\* addTokens calls emit() nowhere
AddTokensEvents(metrics) == <<>>

\* lastOp after addTokens(count): the call, and whether count was 0
AddTokensOp(count) == IF count = 0 THEN "addTokensZero" ELSE "addTokens"

AddTokens(count) ==
    IF AddTokensIgnored(count)
    THEN /\ emitted' = <<>>
         /\ lastOp' = AddTokensOp(count)
         /\ UNCHANGED handlerVars
         /\ rendered' = FALSE
         /\ UNCHANGED <<now, progVars, histVars>>
    ELSE LET total  == AddedTotal(currentMetrics.totalTokens, count)
             pushed == Append(tokenBuffer, [count |-> count, timestamp |-> now])
             cutoffTime == now - (SPEED_BUFFER_SIZE * DISPLAY_THROTTLE_MS)
             kept   == SelectSeq(pushed, LAMBDA point : Retained(point, cutoffTime))
             m      == CalculateSpeed([currentMetrics EXCEPT !.totalTokens = total],
                                      kept, startTime, now)
             open   == ThrottleOpen(now, lastDisplayUpdate)
         IN  /\ Len(kept) <= MaxBuf
             /\ Abs(total) <= MaxTotal
             /\ Abs(sessionSum + count) <= MaxTotal
             /\ Len(sessionArrivals) <= MaxBuf
             /\ tokenBuffer' = kept
             /\ currentMetrics' = m
             /\ lastDisplayUpdate' = IF open THEN now ELSE lastDisplayUpdate
             \* updateDisplay returns early unless isTracking
             /\ text' = IF open /\ isTracking THEN Rendered(m.currentSpeed, ShowIconDefault) ELSE text
             /\ lastRender' = IF open /\ isTracking THEN now ELSE lastRender
             /\ rendered' = (open /\ isTracking)
             /\ emitted' = AddTokensEvents(m)
             /\ lastOp' = AddTokensOp(count)
             /\ UNCHANGED handlerVars
             /\ sessionSum' = sessionSum + count
             /\ sessionNeg' = (sessionNeg \/ count < 0)
             /\ sinceResetSum' = sinceResetSum + count
             /\ sessionArrivals' = Append(sessionArrivals, [count |-> count, timestamp |-> now])
             /\ windowArrivals' = Append(windowArrivals, [count |-> count, timestamp |-> now])
             /\ lastRecompute' = m
             /\ recomputeDropped' = FALSE
             /\ UNCHANGED <<now, isTracking, startTime, metricsUpdateInterval,
                            hideTimeout, intervals, timeouts, visible, disposed,
                            lastStopAt>>

StopTracking_keepsInterval ==
    /\ isTracking' = FALSE
    /\ timeouts' = ClearedTimeouts \cup
                   {[id |-> now, due |-> now + POST_TRACKING_DISPLAY_MS]}
    /\ hideTimeout' = now
    /\ rendered' = FALSE
    /\ lastOp' = "stopTracking"
    /\ UNCHANGED handlerVars
    /\ emitted' = EndedEvents(currentMetrics)
    /\ lastStopAt' = now
    /\ UNCHANGED <<now, startTime, currentMetrics, tokenBuffer, lastDisplayUpdate,
                   intervals, metricsUpdateInterval,
                   visible, text, disposed, sessionSum, sessionNeg,
                   sinceResetSum, lastRender, sessionArrivals, windowArrivals,
                   lastRecompute, recomputeDropped>>

StopTracking ==
    /\ isTracking' = FALSE
    /\ intervals' = ClearedIntervals
    /\ metricsUpdateInterval' = 0
    /\ timeouts' = ClearedTimeouts \cup
                   {[id |-> now, due |-> now + POST_TRACKING_DISPLAY_MS]}
    /\ hideTimeout' = now
    /\ rendered' = FALSE
    /\ lastOp' = "stopTracking"
    /\ UNCHANGED handlerVars
    /\ emitted' = EndedEvents(currentMetrics)
    /\ lastStopAt' = now
    /\ UNCHANGED <<now, startTime, currentMetrics, tokenBuffer, lastDisplayUpdate,
                   visible, text, disposed, sessionSum, sessionNeg,
                   sinceResetSum, lastRender, sessionArrivals, windowArrivals,
                   lastRecompute, recomputeDropped>>

ResetMetrics_clearsThrottle ==
    /\ currentMetrics' = ZeroMetrics
    /\ tokenBuffer' = <<>>
    /\ lastDisplayUpdate' = 0
    /\ rendered' = FALSE
    /\ lastOp' = "resetMetrics"
    /\ UNCHANGED handlerVars
    /\ emitted' = <<>>
    /\ sinceResetSum' = 0
    /\ windowArrivals' = <<>>
    /\ lastRecompute' = ZeroMetrics
    /\ recomputeDropped' = (recomputeDropped \/ lastRecompute # ZeroMetrics)
    /\ UNCHANGED <<now, isTracking, startTime,
                   metricsUpdateInterval, hideTimeout, intervals, timeouts,
                   visible, text, disposed, sessionSum, sessionNeg,
                   lastStopAt, lastRender, sessionArrivals>>

ResetMetrics ==
    /\ currentMetrics' = ZeroMetrics
    /\ tokenBuffer' = <<>>
    /\ rendered' = FALSE
    /\ lastOp' = "resetMetrics"
    /\ UNCHANGED handlerVars
    /\ emitted' = <<>>
    /\ sinceResetSum' = 0
    /\ windowArrivals' = <<>>
    /\ lastRecompute' = ZeroMetrics
    /\ recomputeDropped' = (recomputeDropped \/ lastRecompute # ZeroMetrics)
    /\ UNCHANGED <<now, isTracking, startTime, lastDisplayUpdate,
                   metricsUpdateInterval, hideTimeout, intervals, timeouts,
                   visible, text, disposed, sessionSum, sessionNeg,
                   lastStopAt, lastRender, sessionArrivals>>

Dispose ==
    /\ intervals' = ClearedIntervals
    /\ metricsUpdateInterval' = 0
    /\ timeouts' = ClearedTimeouts
    /\ hideTimeout' = 0
    /\ disposed' = TRUE
    /\ rendered' = FALSE
    /\ lastOp' = "dispose"
    /\ UNCHANGED handlerVars
    /\ emitted' = <<>>
    /\ UNCHANGED <<now, isTracking, startTime, currentMetrics, tokenBuffer,
                   lastDisplayUpdate, visible, text, histVars>>

(***************************************************************************)
(* Timer callbacks, run by the event loop once the timer is due            *)
(***************************************************************************)
TickEvents_captured(metrics) ==
    IF isTracking
    THEN <<[type |-> "metricsUpdated", payload |-> ZeroMetrics]>>
    ELSE <<>>

\* the interval callback: if (this.isTracking) emit('metricsUpdated', this.currentMetrics)
TickEvents(metrics) ==
    IF isTracking
    THEN <<[type |-> "metricsUpdated", payload |-> metrics]>>
    ELSE <<>>

MetricsTick(tm) ==
    /\ tm \in intervals
    /\ now >= tm.due
    /\ intervals' = (intervals \ {tm}) \cup
                    {[tm EXCEPT !.due = now + METRICS_UPDATE_INTERVAL_MS]}
    /\ rendered' = FALSE
    /\ lastOp' = "metricsTick"
    /\ UNCHANGED handlerVars
    /\ emitted' = TickEvents(currentMetrics)
    /\ UNCHANGED <<now, isTracking, startTime, currentMetrics, tokenBuffer,
                   lastDisplayUpdate, metricsUpdateInterval, hideTimeout,
                   timeouts, visible, text, disposed, histVars>>

VisibleAfterHideFire_never == visible

\* the hide callback: if (!this.isTracking) this.statusBarItem.hide()
VisibleAfterHideFire == IF ~isTracking THEN FALSE ELSE visible

HideFire(tm) ==
    /\ tm \in timeouts
    /\ now >= tm.due
    /\ timeouts' = timeouts \ {tm}
    /\ visible' = VisibleAfterHideFire
    /\ rendered' = FALSE
    /\ lastOp' = "hideFire"
    /\ UNCHANGED handlerVars
    /\ emitted' = <<>>
    /\ UNCHANGED <<now, isTracking, startTime, currentMetrics, tokenBuffer,
                   lastDisplayUpdate, metricsUpdateInterval, hideTimeout,
                   intervals, text, disposed, histVars>>

(***************************************************************************)
(* The clock                                                               *)
(***************************************************************************)
Advance(off) ==
    /\ now < Epoch + off
    /\ now' = Epoch + off
    /\ rendered' = FALSE
    /\ lastOp' = "clock"
    /\ UNCHANGED handlerVars
    /\ emitted' = <<>>
    /\ sessionArrivals' = SelectSeq(sessionArrivals, LAMBDA a :
            Epoch + off - a.timestamp < SPEED_BUFFER_SIZE * DISPLAY_THROTTLE_MS)
    /\ windowArrivals' = SelectSeq(windowArrivals, LAMBDA a :
            Epoch + off - a.timestamp < SPEED_BUFFER_SIZE * DISPLAY_THROTTLE_MS)
    /\ UNCHANGED <<progVars, sessionSum, sessionNeg, sinceResetSum, lastStopAt,
                   lastRender, lastRecompute, recomputeDropped>>

DoStartTracking == \E modelName \in Models : StartTracking(modelName)
DoAddTokens == \E count \in Counts : AddTokens(count)
DoMetricsTick == \E tm \in intervals : MetricsTick(tm)
DoHideFire == \E tm \in timeouts : HideFire(tm)
DoAdvance == \E off \in TimeOffsets : Advance(off)

Next ==
    \/ DoStartTracking
    \/ DoAddTokens
    \/ StopTracking
    \/ ResetMetrics
    \/ Dispose
    \/ DoMetricsTick
    \/ DoHideFire
    \/ DoAdvance

Spec == Init /\ [][Next]_vars

(***************************************************************************)
(* The monitor under a fair event loop: time keeps passing until the last  *)
(* instant of the model and a timeout callback that is due is run.         *)
(* stopTracking is called only while the model's clock can still reach the *)
(* instant its hide timeout is due.                                        *)
(***************************************************************************)
MaxOffset == CHOOSE o \in TimeOffsets : \A p \in TimeOffsets : p <= o

Instants == {Epoch} \cup {Epoch + o : o \in TimeOffsets}

StopTrackingInTime ==
    /\ now + POST_TRACKING_DISPLAY_MS <= Epoch + MaxOffset
    /\ StopTracking

DoAddTokensLive == \E count \in LiveCounts : AddTokens(count)

NextLive ==
    \/ DoStartTracking
    \/ DoAddTokensLive
    \/ StopTrackingInTime
    \/ ResetMetrics
    \/ Dispose
    \/ DoMetricsTick
    \/ DoHideFire
    \/ DoAdvance

SpecLive == Init /\ [][NextLive]_vars /\ WF_vars(DoAdvance) /\ WF_vars(DoHideFire)

(***************************************************************************)
(* updateDisplay on its own, over a range of speeds: the monitor right     *)
(* after startTracking at Epoch, with currentSpeed any multiple of 0.1 up  *)
(* to MaxIconTenths / 10.                                                  *)
(***************************************************************************)
IconSpeeds == {Rat(k, 10) : k \in 0..MaxIconTenths}

InitIcon ==
    /\ now = Epoch
    /\ isTracking = TRUE
    /\ startTime = Epoch
    /\ \E speed \in IconSpeeds :
           currentMetrics = [ZeroMetrics EXCEPT !.currentSpeed = speed, !.peakSpeed = speed]
    /\ tokenBuffer = <<>>
    /\ lastDisplayUpdate = 0
    /\ metricsUpdateInterval = Epoch
    /\ hideTimeout = 0
    /\ intervals = {[id |-> Epoch, due |-> Epoch + METRICS_UPDATE_INTERVAL_MS]}
    /\ timeouts = {}
    /\ visible = TRUE
    /\ text = NoText
    /\ disposed = FALSE
    /\ emitted = <<>>
    /\ lastOp = "startTracking"
    /\ sessionSum = 0
    /\ sessionNeg = FALSE
    /\ sinceResetSum = 0
    /\ lastStopAt = 0
    /\ lastRender = 0
    /\ sessionArrivals = <<>>
    /\ windowArrivals = <<>>
    /\ lastRecompute = currentMetrics
    /\ recomputeDropped = FALSE
    /\ rendered = FALSE
    /\ HandlerConstructed("modelA")

UpdateDisplay ==
    /\ isTracking
    /\ text' = Rendered(currentMetrics.currentSpeed, ShowIconDefault)
    /\ lastRender' = now
    /\ rendered' = TRUE
    /\ lastOp' = "updateDisplay"
    /\ UNCHANGED handlerVars
    /\ emitted' = <<>>
    /\ UNCHANGED <<now, isTracking, startTime, currentMetrics, tokenBuffer,
                   lastDisplayUpdate, metricsUpdateInterval, hideTimeout,
                   intervals, timeouts, visible, disposed, sessionSum,
                   sessionNeg, sinceResetSum, lastStopAt, sessionArrivals,
                   windowArrivals, lastRecompute, recomputeDropped>>

NextIcon == UpdateDisplay

SpecIcon == InitIcon /\ [][NextIcon]_vars

(***************************************************************************)
(* The StreamHandler on its own                                            *)
(***************************************************************************)
InitStream == MonitorInit /\ \E name \in Models : HandlerConstructed(name)

SpecStream == InitStream /\ [][NextStream]_vars

TypeOK ==
    /\ isTracking \in BOOLEAN
    /\ visible \in BOOLEAN
    /\ disposed \in BOOLEAN
    /\ Len(tokenBuffer) <= MaxBuf

(***************************************************************************)
(* Properties                                                              *)
(***************************************************************************)
\* C1 (as stated): while Tracking, totalTokens is the sum of the counts of
\* the addTokens(c) calls, all with c >= 1, made since the latest startTracking.
C1_TotalIsSumSinceStart ==
    (isTracking /\ ~sessionNeg) => currentMetrics.totalTokens = sessionSum

\* C1 (amended): while Tracking, totalTokens is the sum of the counts of the
\* processed addTokens calls made since the latest startTracking or
\* resetMetrics, whichever came last.
C1_TotalIsSumSinceReset ==
    isTracking => currentMetrics.totalTokens = sinceResetSum

C1_Witness ==
    /\ isTracking
    /\ lastOp = "addTokens"
    /\ ~sessionNeg
    /\ sinceResetSum = 5
    /\ sessionSum = 10

\* C2: addTokens(count) with the monitor not Tracking, or with count = 0,
\* leaves the buffer, the snapshot, the display text and lastDisplayUpdate
\* unchanged and emits no event.
C2_IgnoredAddTokensIsNoOp ==
    [][(lastOp' = "addTokensZero" \/ (lastOp' = "addTokens" /\ ~isTracking))
         => /\ UNCHANGED <<tokenBuffer, currentMetrics, text, lastDisplayUpdate>>
            /\ emitted' = <<>>]_vars

C2_Witness ==
    /\ lastOp = "addTokens"
    /\ ~isTracking
    /\ lastStopAt # 0
    /\ currentMetrics.totalTokens # 0

\* C3: an addTokens call never lowers totalTokens (a negative count is
\* rejected or clamped).
C3_AddTokensNeverLowersTotal ==
    [][lastOp' \in {"addTokens", "addTokensZero"}
         => currentMetrics'.totalTokens >= currentMetrics.totalTokens]_vars

\* C4: after startTracking, addTokens(5) at t = 0, addTokens(5) at t = 500 and
\* stopTracking at t = 1000, trackingEnded carries totalTokens = 10 and an
\* averageSpeed within 0.05 of 10 tokens/second.
C4_Scenario ==
    /\ lastOp = "stopTracking"
    /\ now = startTime + 1000
    /\ tokenBuffer = <<[count |-> 5, timestamp |-> startTime],
                       [count |-> 5, timestamp |-> startTime + 500]>>
    /\ sessionSum = 10
    /\ sinceResetSum = 10
    /\ ~sessionNeg

C4_StopCarriesSessionAverage ==
    C4_Scenario =>
        /\ Len(emitted) = 1
        /\ emitted[1].type = "trackingEnded"
        /\ emitted[1].payload.totalTokens = 10
        /\ RatGt(emitted[1].payload.averageSpeed, [n |-> 199, d |-> 20])
        /\ RatLt(emitted[1].payload.averageSpeed, [n |-> 201, d |-> 20])

\* C5: stopTracking leaves the display as it is; the display goes from shown
\* to hidden only in the hide-timer callback, with the monitor not Tracking
\* and at least POST_TRACKING_DISPLAY_MS after the latest stopTracking with no
\* startTracking since; and the display is shown whenever the monitor is
\* Tracking.
C5_HiddenOnlyAfterCooldown ==
    [][/\ lastOp' = "stopTracking" => visible' = visible
       /\ (visible /\ ~visible')
            => /\ lastOp' = "hideFire"
               /\ ~isTracking'
               /\ lastStopAt' # 0
               /\ now' - lastStopAt' >= POST_TRACKING_DISPLAY_MS
       /\ isTracking' => visible']_vars

C5_Witness ==
    /\ lastOp = "hideFire"
    /\ ~visible
    /\ lastStopAt > startTime
    /\ startTime > Epoch
    /\ now - lastStopAt >= POST_TRACKING_DISPLAY_MS

\* C6: once dispose() has returned, no timer callback of the monitor runs
\* again, whatever operations are called afterwards.
C6_NoCallbackAfterDispose ==
    [][disposed => lastOp' \notin {"metricsTick", "hideFire"}]_vars

\* C7: a display refresh comes at least DISPLAY_THROTTLE_MS after the refresh
\* before it, in the same session or an earlier one, and records
\* lastDisplayUpdate = now.
C7_RefreshesThrottled ==
    [][rendered'
         => /\ lastRender = 0 \/ now' - lastRender >= DISPLAY_THROTTLE_MS
            /\ lastDisplayUpdate' = now']_vars

C7_Witness ==
    /\ lastOp = "addTokens"
    /\ isTracking
    /\ ~rendered
    /\ lastRender # 0
    /\ lastRender < startTime
    /\ now - lastRender < DISPLAY_THROTTLE_MS

\* C8 (as stated): peakSpeed decreases in no step other than startTracking,
\* and is 0 after startTracking.
C8_PeakNeverDecreasesInSession ==
    [][/\ lastOp' # "startTracking"
            => RatGe(currentMetrics'.peakSpeed, currentMetrics.peakSpeed)
       /\ lastOp' = "startTracking" => currentMetrics'.peakSpeed = Zero]_vars

\* C8 (amended): peakSpeed decreases in no step other than startTracking and
\* resetMetrics, and is 0 after each of the two.
C8_PeakDecreasesOnlyByReset ==
    [][/\ lastOp' \notin {"startTracking", "resetMetrics"}
            => RatGe(currentMetrics'.peakSpeed, currentMetrics.peakSpeed)
       /\ lastOp' \in {"startTracking", "resetMetrics"}
            => currentMetrics'.peakSpeed = Zero]_vars

C8_Witness ==
    /\ lastOp = "addTokens"
    /\ isTracking
    /\ Len(tokenBuffer) > 1
    /\ RatGt(currentMetrics.peakSpeed, Zero)
    /\ RatGt(currentMetrics.peakSpeed, currentMetrics.currentSpeed)

\* C9: peakSpeed >= currentSpeed in every state of the snapshot.
C9_PeakAtLeastCurrent ==
    RatGe(currentMetrics.peakSpeed, currentMetrics.currentSpeed)

C9_Witness ==
    /\ lastOp = "addTokens"
    /\ isTracking
    /\ Len(tokenBuffer) = 1
    /\ RatGt(currentMetrics.currentSpeed, Zero)
    /\ currentMetrics.peakSpeed = currentMetrics.currentSpeed

\* C10: whenever elapsedTime > 0, averageSpeed = totalTokens / elapsedTime,
\* and running the recompute step again right after a processed
\* addTokens leaves the snapshot as it is.
C10_AverageIsTotalOverElapsed ==
    /\ RatGt(currentMetrics.elapsedTime, Zero)
         => currentMetrics.averageSpeed
              = RatDiv(FromInt(currentMetrics.totalTokens), currentMetrics.elapsedTime)
    /\ (lastOp = "addTokens" /\ isTracking)
         => CalculateSpeed(currentMetrics, tokenBuffer, startTime, now) = currentMetrics

C10_Witness ==
    /\ lastOp = "addTokens"
    /\ isTracking
    /\ RatGt(currentMetrics.elapsedTime, Zero)
    /\ currentMetrics.totalTokens > 0
    /\ SumCounts(tokenBuffer) # currentMetrics.totalTokens
    /\ sinceResetSum = sessionSum

\* C11 (as stated): after every processed addTokens at instant now, the buffer
\* holds exactly the arrivals of the current session (those processed since
\* the latest startTracking) with timestamp > now - 1000 ms.
C11_BufferIsSessionWindow ==
    (lastOp = "addTokens" /\ isTracking) => tokenBuffer = sessionArrivals

\* C11 (amended): after every processed addTokens at instant now, the buffer
\* holds exactly the arrivals processed since the latest startTracking or
\* resetMetrics with timestamp > now - 1000 ms, and a currentSpeed assigned by
\* that call is the sum of the counts of exactly those arrivals over the time
\* span back to the oldest of them.
C11_BufferIsWindowSinceReset ==
    (lastOp = "addTokens" /\ isTracking) =>
        /\ tokenBuffer = windowArrivals
        /\ \A i \in 1..Len(tokenBuffer) :
               now - tokenBuffer[i].timestamp < SPEED_BUFFER_SIZE * DISPLAY_THROTTLE_MS
        /\ (Len(windowArrivals) > 1 /\ now > windowArrivals[1].timestamp /\ now > startTime) =>
               currentMetrics.currentSpeed.n * (now - windowArrivals[1].timestamp)
                   = 1000 * SumCounts(windowArrivals) * currentMetrics.currentSpeed.d

\* a processed addTokens after which an earlier arrival of the session, never
\* reset away, is no longer in the buffer of two arrivals
C11_Witness ==
    /\ lastOp = "addTokens"
    /\ isTracking
    /\ now - startTime >= SPEED_BUFFER_SIZE * DISPLAY_THROTTLE_MS
    /\ sinceResetSum = sessionSum
    /\ Len(tokenBuffer) = 2
    /\ SumCounts(tokenBuffer) # sessionSum

C13_MetricsUpdatedOnlyWhileTracking ==
    [][\A i \in 1..Len(emitted') :
          emitted'[i].type = "metricsUpdated" =>
              /\ isTracking
              /\ isTracking'
              /\ lastStopAt' = 0
              /\ ~disposed']_vars

\* C14: every startTracking(label) emits exactly one trackingStarted carrying
\* {model: label}, every stopTracking emits exactly one trackingEnded
\* carrying the snapshot as it stands at the call, and no other operation
\* or timer callback emits either event.
C14_OneStartedOneEnded ==
    [][/\ lastOp' = "startTracking" =>
              \A label \in Models :
                  StartTracking(label) =>
                      emitted' = <<[type |-> "trackingStarted", payload |-> [model |-> label]]>>
       /\ lastOp' = "startTracking" =>
              /\ Len(emitted') = 1
              /\ emitted'[1].type = "trackingStarted"
              /\ emitted'[1].payload \in {[model |-> label] : label \in Models}
       /\ lastOp' = "stopTracking" =>
              emitted' = <<[type |-> "trackingEnded", payload |-> currentMetrics']>>
       /\ lastOp' \notin {"startTracking", "stopTracking"} =>
              \A i \in 1..Len(emitted') :
                  emitted'[i].type \notin {"trackingStarted", "trackingEnded"}]_vars

\* stopTracking has just ended a session that counted tokens
C14_Witness ==
    /\ lastOp = "stopTracking"
    /\ Len(emitted) = 1
    /\ emitted[1].type = "trackingEnded"
    /\ emitted[1].payload.totalTokens > 0
    /\ RatGt(emitted[1].payload.peakSpeed, Zero)

\* The lifecycle states as the fields give them: Tracking is isTracking,
\* Cooldown is not tracking with a hide timeout scheduled, Idle is the rest.
C15_Tracking == isTracking
C15_Cooldown == ~isTracking /\ timeouts # {}
C15_Idle == ~isTracking /\ timeouts = {}

\* C15: the monitor moves only Idle -> Tracking -> Cooldown -> Idle, plus
\* Cooldown -> Tracking and Tracking -> Tracking, and in every Idle state the
\* display is hidden and the arrival buffer is empty.
C15_LifecycleAndIdle ==
    /\ [](C15_Idle => (~visible /\ tokenBuffer = <<>>))
    /\ [][\/ C15_Idle /\ (C15_Idle' \/ C15_Tracking')
          \/ C15_Tracking /\ (C15_Tracking' \/ C15_Cooldown')
          \/ C15_Cooldown /\ (C15_Cooldown' \/ C15_Idle' \/ C15_Tracking')]_vars

\* The field values, after the step, of the object that was attached to the
\* event of the previous step.  emit() is handed this.currentMetrics itself;
\* resetMetrics (also run by startTracking) points the field at a new object
\* and leaves the old one alone, every other method writes into the object.
PayloadAfterStep ==
    IF lastOp' \in {"startTracking", "resetMetrics"}
    THEN emitted[1].payload
    ELSE currentMetrics'

\* C16: the payload of an emitted metricsUpdated or trackingEnded event keeps
\* the field values it was emitted with when the monitor runs its next
\* operation.
C16_PayloadIsACopy ==
    [][(emitted # <<>> /\ emitted[1].type \in {"metricsUpdated", "trackingEnded"})
          => PayloadAfterStep = emitted[1].payload]_vars

\* C17: the icon shown for a speed is band 1 below 10, band 2 from 10 to
\* below 30, band 3 from 30 to below 60, band 4 from 60 to below 100 and
\* band 5 from 100 on; 9.9 is band 1, 10 is band 2, 100 is band 5, and a
\* non-negative speed is in exactly one band.
C17_InBand(b, speed) ==
    CASE b = 1 -> speed.n < 10 * speed.d
      [] b = 2 -> 10 * speed.d <= speed.n /\ speed.n < 30 * speed.d
      [] b = 3 -> 30 * speed.d <= speed.n /\ speed.n < 60 * speed.d
      [] b = 4 -> 60 * speed.d <= speed.n /\ speed.n < 100 * speed.d
      [] b = 5 -> 100 * speed.d <= speed.n

C18_ResetMetricsFrame ==
    [][lastOp' = "resetMetrics" =>
          /\ currentMetrics'.totalTokens = 0
          /\ currentMetrics'.currentSpeed = Zero
          /\ currentMetrics'.averageSpeed = Zero
          /\ currentMetrics'.peakSpeed = Zero
          /\ currentMetrics'.elapsedTime = Zero
          /\ tokenBuffer' = <<>>
          /\ UNCHANGED <<isTracking, startTime, metricsUpdateInterval, intervals,
                         hideTimeout, timeouts, lastDisplayUpdate, visible, text>>]_vars

\* resetMetrics has just run in a session whose interval is scheduled, after
\* tokens were counted and the display was refreshed
C18_Witness ==
    /\ lastOp = "resetMetrics"
    /\ isTracking
    /\ intervals # {}
    /\ sessionSum # 0
    /\ lastDisplayUpdate > startTime
    /\ visible

\* C19: a processed addTokens (Tracking, count # 0) emits no event and does
\* not start, cancel or re-arm the metrics interval or the hide timeout; it
\* changes nothing but the snapshot, the buffer and the throttled display.
C19_AddTokensFrame ==
    [][(lastOp' = "addTokens" /\ isTracking) =>
          /\ emitted' = <<>>
          /\ UNCHANGED <<metricsUpdateInterval, intervals, hideTimeout, timeouts,
                         isTracking, startTime, visible, disposed>>
          /\ ~rendered' => UNCHANGED <<text, lastDisplayUpdate>>]_vars

\* a processed addTokens has just refreshed the display with both timers of
\* an earlier stopTracking and of this session around
C19_Witness ==
    /\ lastOp = "addTokens"
    /\ isTracking
    /\ rendered
    /\ intervals # {}
    /\ currentMetrics.totalTokens # 0

\* C20: a processed addTokens assigns currentSpeed only when elapsedTime > 0,
\* the buffer holds more than one arrival and the time span back to the
\* oldest of them is > 0, and then to (sum of the buffered counts) / span;
\* in every other case currentSpeed keeps its previous value.
C20_CurrentSpeedAssignedOrKept ==
    [][(lastOp' = "addTokens" /\ isTracking) =>
          IF /\ now' - startTime' > 0
             /\ Len(tokenBuffer') > 1
             /\ now' - tokenBuffer'[1].timestamp > 0
          THEN currentMetrics'.currentSpeed.n * (now' - tokenBuffer'[1].timestamp)
                   = 1000 * SumCounts(tokenBuffer') * currentMetrics'.currentSpeed.d
          ELSE currentMetrics'.currentSpeed = currentMetrics.currentSpeed]_vars

\* a processed addTokens has left two arrivals of one instant buffered (zero
\* time span) and currentSpeed still at its earlier non-zero value
C20_Witness ==
    /\ lastOp = "addTokens"
    /\ isTracking
    /\ Len(tokenBuffer) = 2
    /\ tokenBuffer[1].timestamp = now
    /\ now > startTime
    /\ RatGt(currentMetrics.currentSpeed, Zero)

\* C21 (as stated): the snapshot carried by a metricsUpdated event is the one
\* left by the most recent recompute of the current session (since the
\* latest startTracking), all zeros if no addTokens was processed in it.
C21_TickCarriesSessionRecompute ==
    (lastOp = "metricsTick" /\ emitted # <<>>) =>
        /\ ~recomputeDropped
        /\ emitted[1].payload = lastRecompute

\* C21 (amended): the snapshot carried by a metricsUpdated event is the one
\* left by the most recent recompute since the latest startTracking or
\* resetMetrics, all zeros if no addTokens was processed since then; it is
\* never a snapshot of an earlier session.
C21_TickCarriesLatestRecompute ==
    (lastOp = "metricsTick" /\ emitted # <<>>) =>
        /\ Len(emitted) = 1
        /\ emitted[1].type = "metricsUpdated"
        /\ emitted[1].payload = lastRecompute
        /\ sinceResetSum = 0 /\ windowArrivals = <<>> /\ tokenBuffer = <<>>
               => emitted[1].payload.totalTokens = 0

\* a tick carries a snapshot with tokens counted and a speed computed in a
\* session started some time after construction
C21_Witness ==
    /\ lastOp = "metricsTick"
    /\ emitted # <<>>
    /\ emitted[1].payload.totalTokens # 0
    /\ RatGt(emitted[1].payload.currentSpeed, Zero)
    /\ startTime > Epoch
    /\ now - startTime >= METRICS_UPDATE_INTERVAL_MS

\* C22: in every reachable state at most one metrics interval and at most
\* one hide timeout are scheduled, never both at once: a scheduled interval
\* implies isTracking and a scheduled hide timeout implies not isTracking.
C22_AtMostOneTimer ==
    /\ Cardinality(intervals) <= 1
    /\ Cardinality(timeouts) <= 1
    /\ intervals # {} => isTracking
    /\ timeouts # {} => ~isTracking
    /\ ~(intervals # {} /\ timeouts # {})
    /\ \A tm \in intervals : tm.id = metricsUpdateInterval
    /\ \A tm \in timeouts : tm.id = hideTimeout

\* stopTracking has just run on a disposed and hidden monitor that had
\* counted tokens, leaving the one new hide timeout scheduled
C22_Witness ==
    /\ lastOp = "stopTracking"
    /\ Cardinality(timeouts) = 1
    /\ intervals = {}
    /\ ~visible
    /\ disposed
    /\ currentMetrics.totalTokens # 0

\* C23: after a stopTracking on a monitor not disposed, unless a
\* startTracking, a later stopTracking or a dispose follows, the hide
\* timeout eventually fires and the display is hidden; and a hidden display
\* is shown again only by startTracking.
C23_HiddenAfterCooldown ==
    /\ \A t \in Instants :
           (lastStopAt = t /\ ~disposed) ~> (~visible \/ lastStopAt # t \/ disposed)
    /\ [][(~visible /\ visible') => lastOp' = "startTracking"]_vars

\* the hide timeout of a session that counted tokens has fired, with no
\* dispose, and hidden the display
C23_Witness ==
    /\ lastOp = "hideFire"
    /\ ~visible
    /\ ~disposed
    /\ ~isTracking
    /\ lastStopAt # 0
    /\ now >= lastStopAt + POST_TRACKING_DISPLAY_MS
    /\ sessionSum # 0

\* the texts of the text chunks of a sequence of chunks, in order
RECURSIVE C24_TextsOf(_)
C24_TextsOf(chunks) ==
    IF chunks = <<>> THEN <<>>
    ELSE IF Head(chunks).type = "text"
         THEN <<Head(chunks).text>> \o C24_TextsOf(Tail(chunks))
         ELSE C24_TextsOf(Tail(chunks))

C24_Count(type) == Len(SelectSeq(streamEvents, LAMBDA e : e.type = type))

\* C24: over any sequence of handleApiStream calls, streamStarted is emitted
\* at most once in the handler's lifetime and before every chunkReceived;
\* a call emits one chunkReceived per text chunk, in stream order; a call
\* emits streamEnded only once its stream is exhausted, as its last event,
\* and only if streamStarted has been emitted; and as long as no text chunk
\* has arrived the handler has emitted no event at all.
C24_StreamEvents ==
    /\ C24_Count("streamStarted") <= 1
    /\ hasStarted <=> C24_Count("streamStarted") = 1
    /\ \A i \in 1..Len(streamEvents) :
           streamEvents[i].type = "chunkReceived" =>
               \E j \in 1..(i - 1) : streamEvents[j].type = "streamStarted"
    /\ received = C24_TextsOf(SubSeq(call.given, 1, Len(call.given) - Len(call.rest)))
    /\ Len(received) = Len(SelectSeq(streamEvents,
                               LAMBDA e : e.type = "chunkReceived" /\ e.call = callsMade))
    /\ call.pc = "done" => received = C24_TextsOf(call.given)
    /\ \A i \in 1..Len(streamEvents) :
           streamEvents[i].type = "streamEnded" =>
               /\ \E j \in 1..(i - 1) : streamEvents[j].type = "streamStarted"
               /\ \A k \in (i + 1)..Len(streamEvents) :
                      streamEvents[k].call # streamEvents[i].call
               /\ streamEvents[i].call = callsMade => (call.pc = "done" /\ call.rest = <<>>)
    /\ (call.pc = "done" /\ hasStarted) =>
           streamEvents[Len(streamEvents)] = [type |-> "streamEnded", call |-> callsMade]
    /\ ~hasStarted => streamEvents = <<>>

\* a later call whose stream yields no text chunk has returned on a handler
\* that had started: it emitted streamEnded alone, after an earlier call
\* emitted two chunkReceived; and no second streamStarted
C24_Witness ==
    /\ callsMade >= 2
    /\ call.pc = "done"
    /\ call.given # <<>>
    /\ received = <<>>
    /\ C24_Count("chunkReceived") = 2
    /\ C24_Count("streamStarted") = 1
    /\ C24_Count("streamEnded") >= 2
====
